---- MODULE Spec2Model ----
(***************************************************************************)
(* Credential lifecycle of the neonctl `auth` module (src/src/auth.ts):    *)
(* the ensureAuth middleware, the auth command handler, authFlow, the      *)
(* loopback login auth(), refreshToken and preserveCredentials, run for    *)
(* one invocation of the tool against one credential file.                 *)
(***************************************************************************)
EXTENDS Integers, Sequences, FiniteSets, TLC

(* ------------------------------------------------------------------ *)
(* Bounds of the model                                                 *)
(* ------------------------------------------------------------------ *)

\* the clock (seconds) and the expires_at stamps of stored files range over 0..MaxTime
MaxTime == 1
\* requests the loopback HTTP server receives during one login attempt
MaxRequests == 2

(* ------------------------------------------------------------------ *)
(* Program constants                                                   *)
(* ------------------------------------------------------------------ *)

\* writeFileSync(path, contents, { mode: 0o700 })
CREDENTIALS_MODE == 448

(* ------------------------------------------------------------------ *)
(* Values                                                              *)
(* ------------------------------------------------------------------ *)

\* access tokens found in a stored credential / issued by the OAuth server
StoredAccessTokens == {"at0"}
\* "" stands for an absent (undefined) field
StoredRefreshTokens == {"", "rt0"}
\* user ids getCurrentUserInfo may return; stored files carry "u0", an older one
UserIds == {"u1"}
\* permission bits an already existing credential file may carry: 0o600, 0o644
ExistingModes == {384, 420}
\* process umask: 0o022
Umasks == {18}
\* yargs positional command (props._[0]); "" is the empty command line (props._ = [])
Commands == {"", "auth", "login", "projects"}
\* --api-key values; "" is no explicit key
ApiKeys == {"", "key"}

Max(a, b) == IF a >= b THEN a ELSE b

\* request urls, as texts cut into pieces: the redirect target /callback?..., a
\* longer path that begins the same way, and two other paths
RequestUrls ==
  {<<"/", "callback", "?code&state">>, <<"/", "callback", "x", "?code&state">>,
   <<"/">>, <<"/", "favicon.ico">>}

\* the path of REDIRECT_URI
CALLBACK_PATH == <<"/", "callback">>

\* s.startsWith(prefix)
startsWith(s, prefix) ==
  Len(s) >= Len(prefix) /\ SubSeq(s, 1, Len(prefix)) = prefix

\* the path of a url: what precedes the query
PathOf(url) ==
  IF Len(url) > 0 /\ url[Len(url)] = "?code&state" THEN SubSeq(url, 1, Len(url) - 1) ELSE url

\* the test of the request handler: the url is taken for the callback
IsCallbackUrl(url) == startsWith(url, CALLBACK_PATH)

(* ------------------------------------------------------------------ *)
(* TokenSet objects and their JSON form                                *)
(* ------------------------------------------------------------------ *)

\* an object is a function from its own property names to values
Keys == {"access_token", "refresh_token", "expires_at", "user_id"}
KeyOrder == <<"access_token", "refresh_token", "expires_at", "user_id">>

\* new TokenSet({access_token, refresh_token?, expires_at?}); rt = "" and exp < 0
\* leave the property out
MkTokenSet(at, rt, exp) ==
  LET all == [access_token |-> at, refresh_token |-> rt, expires_at |-> exp]
      own == {"access_token"}
               \cup (IF rt # "" THEN {"refresh_token"} ELSE {})
               \cup (IF exp >= 0 THEN {"expires_at"} ELSE {})
  IN  [k \in own |-> all[k]]

\* property read that yields "" for undefined
Prop(o, k) == IF k \in DOMAIN o THEN o[k] ELSE ""

\* a && b on strings
OrElse_and(a, b) == IF a = "" THEN a ELSE b

\* a || b on strings
OrElse(a, b) == IF a = "" THEN b ELSE a

\* decimal text of JSON numbers
Digits == <<"0", "1", "2", "3", "4", "5", "6", "7", "8", "9">>
NumToText(n) == Digits[n + 1]
TextToNum(t) == CHOOSE n \in 0..9 : Digits[n + 1] = t

LBRACE == <<"{", "">>
RBRACE == <<"}", "">>

ValueText(k, v) == IF k = "expires_at" THEN NumToText(v) ELSE v
TextValue(k, t) == IF k = "expires_at" THEN TextToNum(t) ELSE t

\* JSON.stringify(o): the members in property order between braces
JSONstringify(o) ==
  LET ks == SelectSeq(KeyOrder, LAMBDA k : k \in DOMAIN o)
  IN  <<LBRACE>> \o [i \in 1..Len(ks) |-> <<ks[i], ValueText(ks[i], o[ks[i]])>>] \o <<RBRACE>>

\* whether JSON.parse(s) returns instead of throwing SyntaxError
IsJSON(s) ==
  /\ Len(s) >= 2
  /\ s[1] = LBRACE
  /\ s[Len(s)] = RBRACE
  /\ \A i \in 2..(Len(s) - 1) : s[i][1] \in Keys

\* JSON.parse(s) for a text that parses; a repeated member takes its last value
JSONparse(s) ==
  LET idx == 2..(Len(s) - 1)
      last(k) == CHOOSE i \in idx : s[i][1] = k /\ \A j \in idx : s[j][1] = k => j <= i
  IN  [k \in {s[i][1] : i \in idx} |-> TextValue(k, s[last(k)][2])]

\* expired() with a missing expires_at taken for an expired token
expired_missing_is_expired(tokenSet, now) ==
  \/ "expires_at" \notin DOMAIN tokenSet
  \/ Max(tokenSet["expires_at"] - now, 0) = 0

\* TokenSet.expired(): expires_in === 0, expires_in = max(expires_at - now, 0),
\* undefined without expires_at
expired(tokenSet, now) ==
  /\ "expires_at" \in DOMAIN tokenSet
  /\ Max(tokenSet["expires_at"] - now, 0) = 0

\* { ...credentials, user_id: id }
WithUserId(credentials, id) ==
  [k \in (DOMAIN credentials) \cup {"user_id"} |->
     IF k = "user_id" THEN id ELSE credentials[k]]

\* contents serialized from the token set alone
CredentialContents_no_user_id(credentials, id) == JSONstringify(credentials)

\* the contents preserveCredentials writes
CredentialContents(credentials, id) == JSONstringify(WithUserId(credentials, id))

(* ------------------------------------------------------------------ *)
(* The credential file                                                 *)
(* ------------------------------------------------------------------ *)

RECURSIVE BitAndNot(_, _, _)
\* a & ~b on n bits
BitAndNot(a, b, n) ==
  IF n = 0 THEN 0
  ELSE (IF a % 2 = 1 /\ b % 2 = 0 THEN 1 ELSE 0) + 2 * BitAndNot(a \div 2, b \div 2, n - 1)

NoFile == [exists |-> FALSE, contents |-> <<>>, mode |-> 0]

\* writeFileSync that opens without O_TRUNC: what the old contents hold past the
\* end of the new ones stays in the file
writeFileSync_no_truncate(f, contents, mode, umask) ==
  [exists   |-> TRUE,
   contents |-> IF f.exists /\ Len(f.contents) > Len(contents)
                  THEN contents \o SubSeq(f.contents, Len(contents) + 1, Len(f.contents))
                  ELSE contents,
   mode     |-> IF f.exists THEN f.mode ELSE BitAndNot(mode, umask, 9)]

\* writeFileSync(path, contents, {mode}): open(O_WRONLY|O_CREAT|O_TRUNC, mode), write.
\* The mode argument takes effect (masked by the umask) only when open creates the
\* file; an existing file keeps its permission bits.
writeFileSync(f, contents, mode, umask) ==
  [exists   |-> TRUE,
   contents |-> contents,
   mode     |-> IF f.exists THEN f.mode ELSE BitAndNot(mode, umask, 9)]

\* the two system calls of writeFileSync, for when another process acts between
\* them: open(path, O_WRONLY|O_CREAT|O_TRUNC, mode) empties the file at once
openTrunc(f, mode, umask) ==
  [exists   |-> TRUE,
   contents |-> <<>>,
   mode     |-> IF f.exists THEN f.mode ELSE BitAndNot(mode, umask, 9)]

\* write(fd, contents) at offset 0 of the opened file: what another process wrote
\* beyond the end of contents in the meantime stays; a file unlinked in the meantime
\* stays absent from the path
writeAt0(f, contents) ==
  IF ~f.exists THEN f
  ELSE [f EXCEPT !.contents =
          IF Len(f.contents) > Len(contents)
            THEN contents \o SubSeq(f.contents, Len(contents) + 1, Len(f.contents))
            ELSE contents]

\* no permission bit for group or others
OwnerOnly(mode) == mode % 64 = 0

(* ------------------------------------------------------------------ *)
(* Errors                                                              *)
(* ------------------------------------------------------------------ *)

NoError == [message |-> "", code |-> ""]
\* new Error('AUTH_REFRESH_FAILED')
RefreshFailedError == [message |-> "AUTH_REFRESH_FAILED", code |-> ""]
\* new Error('Cannot run interactive auth in CI')
CiError == [message |-> "Cannot run interactive auth in CI", code |-> ""]
\* SyntaxError of JSON.parse
SyntaxError == [message |-> "Unexpected end of JSON input", code |-> ""]
\* rejection of Issuer.discover in auth()
DiscoveryError == [message |-> "discovery failed", code |-> "ECONNREFUSED"]
\* rejection of apiClient.getCurrentUserInfo()
IdentityError == [message |-> "Request failed", code |-> "ERR_BAD_RESPONSE"]
\* node:fs system error
FsError(code) == [message |-> code, code |-> code]

\* error codes readFileSync may raise besides ENOENT
IoErrorCodes == {"EACCES", "EIO"}
\* error codes the open of writeFileSync may raise (the file is then untouched):
\* the configuration directory is gone, or the path is not writable
WriteErrorCodes == {"ENOENT", "EACCES"}

\* a catch clause that takes every file-system error for a missing file
StartsAuthFlow_any_code(e) ==
  e.message = "AUTH_REFRESH_FAILED" \/ e.code \in {"ENOENT", "EACCES", "EIO"}

\* a catch clause that rethrows the refresh failure instead of logging in
StartsAuthFlow_enoent_only(e) == e.code = "ENOENT"

\* the test of ensureAuth's catch clause: fall into authFlow, or rethrow
StartsAuthFlow(e) == e.message = "AUTH_REFRESH_FAILED" \/ e.code = "ENOENT"

\* a test that forgets the explicit API key
SkipsFileLogic_auth_only(key, cmd) == cmd = "auth"

\* the test that makes ensureAuth skip the credential file
SkipsFileLogic(key, cmd) == key # "" \/ cmd = "auth"

\* an ensureAuth that returns without a login when there is no file
AfterExistsSync_no_login(exists) == IF exists THEN "read" ELSE "returned"

\* where ensureAuth goes after existsSync(credentialsPath)
AfterExistsSync(exists) == IF exists THEN "read" ELSE "authFlow"

\* the flag read the wrong way round
RefusesInteractive_inverted(forceAuth, ci) == forceAuth /\ ci

\* the test that makes authFlow refuse to log in
RefusesInteractive(forceAuth, ci) == ~forceAuth /\ ci

(* ------------------------------------------------------------------ *)
(* State                                                               *)
(* ------------------------------------------------------------------ *)

VARIABLES
  args,        \* yargs arguments: [cmd, help, forceAuth, apiKey]
  env,         \* [ci: isCi(), umask, now: clock in seconds]
  apiKey,      \* props.apiKey
  apiClient,   \* the key props.apiClient is authorized with ("none": never set)
  file,        \* the credential file: [exists, contents, mode]
  pc,          \* position of the main flow
  caller,      \* "ensureAuth" while the middleware runs, "handler" in the command handler
  saveFor,     \* which call of preserveCredentials is running: "refresh" or "login"
  err,         \* the error the invocation ended with
  tokenSet,    \* the TokenSet read from the file
  newTokenSet, \* the TokenSet handed to preserveCredentials
  userId,      \* the id the last getCurrentUserInfo returned
  server,      \* loopback server of the current auth() call and what it served
  hist,        \* what happened: [file0, read, refresh, saved, crashedAt]
  fx           \* counts of the effects made so far

vars == <<args, env, apiKey, apiClient, file, pc, caller, saveFor, err, tokenSet,
          newTokenSet, userId, server, hist, fx>>

NoTokenSet == MkTokenSet("", "", -1)
\* listening: accepting connections; resolved: the promise of auth() is resolved;
\* requests: requests received; pending: exchanges awaited by request handlers;
\* notFound, exchanges, successPages, rejections: 404 responses, completed exchanges,
\* 200 responses and rejected request handlers of this server; stale: exchanges
\* still awaited by handlers of an earlier auth() call's server; offPath:
\* a request whose path is not the path of REDIRECT_URI was not answered 404
NoServer ==
  [listening |-> FALSE, resolved |-> FALSE, requests |-> 0, pending |-> 0,
   notFound |-> 0, exchanges |-> 0, successPages |-> 0, rejections |-> 0, stale |-> 0,
   offPath |-> FALSE]
NoEffects ==
  [existsChecks |-> 0, reads |-> 0, refreshCalls |-> 0, refreshDiscoveries |-> 0,
   refreshGrants |-> 0, authFlowCalls |-> 0, loginDiscoveries |-> 0, listeners |-> 0,
   browserOpens |-> 0, identityCalls |-> 0, writes |-> 0]

\* token sets a stored credential file may hold
StoredTokenSets ==
  {MkTokenSet(at, rt, exp) :
     at \in StoredAccessTokens, rt \in StoredRefreshTokens, exp \in (-1)..MaxTime}

\* token sets the OAuth server issues at time now (expires_at = now + expires_in)
\* one repeats the stored access token and carries no refresh token, one is new
IssuedTokenSets(now) ==
  {MkTokenSet("at0", "", now + 1), MkTokenSet("at1", "rt1", now + 1)}

\* texts that are not JSON: an empty file, a text cut before its closing brace
CorruptContents ==
  {<<>>, SubSeq(CredentialContents(MkTokenSet("at0", "rt0", 0), "u0"), 1, 3)}

\* the other invocation working on the same credential file, when there is one:
\* where it stands, whether it has read the file, and the contents it read
NoPeer == [pc |-> "none", read |-> FALSE, seen |-> <<>>]

InitialFiles ==
  {NoFile} \cup
  [exists   : {TRUE},
   contents : CorruptContents \cup {CredentialContents(ts, "u0") : ts \in StoredTokenSets},
   mode     : ExistingModes]

Init ==
  /\ args \in [cmd : Commands, help : BOOLEAN, forceAuth : BOOLEAN, apiKey : ApiKeys]
  /\ env \in [ci : BOOLEAN, umask : Umasks, now : 0..MaxTime, peer : {NoPeer}]
  /\ apiKey = args.apiKey
  /\ apiClient = "none"
  /\ file \in InitialFiles
  /\ pc = "ensureAuth"
  /\ caller = "ensureAuth"
  /\ saveFor = "none"
  /\ err = NoError
  /\ tokenSet = NoTokenSet
  /\ newTokenSet = NoTokenSet
  /\ userId = ""
  /\ server = NoServer
  /\ hist = [file0 |-> file, read |-> "none", refresh |-> "none", saved |-> "none",
             crashedAt |-> "none"]
  /\ fx = NoEffects

(* ------------------------------------------------------------------ *)
(* Steps of the main flow                                              *)
(* ------------------------------------------------------------------ *)

Count(field) == [fx EXCEPT ![field] = @ + 1]

\* the invocation ends with e thrown to the caller of ensureAuth / handler
Throw(e) ==
  /\ pc' = "threw"
  /\ err' = e

\* e is thrown inside the try block of ensureAuth (lines 220-261): the catch
\* clause either calls authFlow or rethrows
ThrowInTry(e) ==
  IF StartsAuthFlow(e)
    THEN pc' = "authFlow" /\ err' = err
    ELSE Throw(e)

\* ensureAuth up to the existsSync test
ensureAuth ==
  /\ pc = "ensureAuth"
  /\ IF args.cmd = "" \/ args.help
       THEN /\ pc' = "returned"
            /\ UNCHANGED <<apiClient, fx, hist>>
       ELSE IF SkipsFileLogic(apiKey, args.cmd)
         THEN /\ apiClient' = apiKey
              /\ pc' = "returned"
              /\ UNCHANGED <<fx, hist>>
         ELSE /\ fx' = Count("existsChecks")
              /\ pc' = AfterExistsSync(file.exists)
              /\ hist' = IF file.exists THEN hist ELSE [hist EXCEPT !.read = "missing"]
              /\ UNCHANGED apiClient
  /\ UNCHANGED <<args, env, apiKey, file, caller, saveFor, err, tokenSet, newTokenSet,
                 userId, server>>

\* the credential file is removed by the user or the environment after existsSync
\* saw it
ExternalRemove ==
  /\ pc = "read"
  /\ file.exists
  /\ file' = NoFile
  /\ UNCHANGED <<args, env, apiKey, apiClient, pc, caller, saveFor, err, tokenSet,
                 newTokenSet, userId, server, hist, fx>>

\* readFileSync, JSON.parse, new TokenSet, expired(), and the use of a cached token
readCredentials ==
  /\ pc = "read"
  /\ \E io \in {""} \cup IoErrorCodes :
       /\ fx' = IF file.exists /\ io = "" /\ IsJSON(file.contents)
                     /\ expired(JSONparse(file.contents), env.now)
                  THEN [Count("reads") EXCEPT !.refreshCalls = @ + 1]
                  ELSE Count("reads")
       /\ IF ~file.exists
            THEN /\ ThrowInTry(FsError("ENOENT"))
                 /\ hist' = [hist EXCEPT !.read = "ENOENT"]
                 /\ UNCHANGED <<apiKey, apiClient, tokenSet>>
            ELSE IF io # ""
              THEN /\ ThrowInTry(FsError(io))
                   /\ hist' = [hist EXCEPT !.read = "ioerror"]
                   /\ UNCHANGED <<apiKey, apiClient, tokenSet>>
              ELSE IF ~IsJSON(file.contents)
                THEN /\ ThrowInTry(SyntaxError)
                     /\ hist' = [hist EXCEPT !.read = "corrupt"]
                     /\ UNCHANGED <<apiKey, apiClient, tokenSet>>
                ELSE /\ tokenSet' = JSONparse(file.contents)
                     /\ IF expired(tokenSet', env.now)
                          THEN /\ pc' = "refresh_discover"
                               /\ hist' = [hist EXCEPT !.read = "expired"]
                               /\ UNCHANGED <<apiKey, apiClient, err>>
                          ELSE /\ apiKey' = OrElse(Prop(tokenSet', "access_token"), "UNKNOWN")
                               /\ apiClient' = apiKey'
                               /\ pc' = "returned"
                               /\ hist' = [hist EXCEPT !.read = "valid"]
                               /\ UNCHANGED err
  /\ UNCHANGED <<args, env, file, caller, saveFor, newTokenSet, userId, server>>

\* refreshToken: Issuer.discover
refreshToken_discover ==
  /\ pc = "refresh_discover"
  /\ fx' = Count("refreshDiscoveries")
  /\ \E ok \in BOOLEAN :
       IF ok
         THEN pc' = "refresh_grant" /\ UNCHANGED <<err, hist>>
         ELSE ThrowInTry(RefreshFailedError) /\ hist' = [hist EXCEPT !.refresh = "failed"]
  /\ UNCHANGED <<args, env, apiKey, apiClient, file, caller, saveFor, tokenSet,
                 newTokenSet, userId, server>>

\* refreshToken: neonOAuthClient.refresh(tokenSet), which rejects at once when the
\* TokenSet has no refresh_token; on success ensureAuth lines 242-246
refreshToken_refresh ==
  /\ pc = "refresh_grant"
  /\ fx' = Count("refreshGrants")
  /\ \E r \in {NoTokenSet} \cup IssuedTokenSets(env.now) :
       IF r = NoTokenSet \/ Prop(tokenSet, "refresh_token") = ""
         THEN /\ ThrowInTry(RefreshFailedError)
              /\ hist' = [hist EXCEPT !.refresh = "failed"]
              /\ UNCHANGED <<apiKey, apiClient, newTokenSet, saveFor>>
         ELSE /\ apiKey' = OrElse(Prop(r, "access_token"), "UNKNOWN")
              /\ apiClient' = apiKey'
              /\ newTokenSet' = r
              /\ saveFor' = "refresh"
              /\ pc' = "preserve"
              /\ hist' = [hist EXCEPT !.refresh = "ok"]
              /\ UNCHANGED err
  /\ UNCHANGED <<args, env, file, caller, tokenSet, userId, server>>

\* authFlow up to the call of auth()
authFlow ==
  /\ pc = "authFlow"
  /\ fx' = Count("authFlowCalls")
  /\ IF RefusesInteractive(args.forceAuth, env.ci)
       THEN Throw(CiError)
       ELSE pc' = "auth_discover" /\ err' = err
  /\ UNCHANGED <<args, env, apiKey, apiClient, file, caller, saveFor, tokenSet,
                 newTokenSet, userId, server, hist>>

\* auth(): Issuer.discover, then createServer/listen, the PKCE values, the request
\* handler and open(authUrl)
auth ==
  /\ pc = "auth_discover"
  /\ \E ok \in BOOLEAN :
       IF ok
         THEN /\ server' = [NoServer EXCEPT !.listening = TRUE,
                                            !.stale = server.stale + server.pending]
              /\ fx' = [fx EXCEPT !.loginDiscoveries = @ + 1, !.listeners = @ + 1,
                                  !.browserOpens = @ + 1]
              /\ pc' = "auth_wait"
              /\ err' = err
         ELSE /\ fx' = Count("loginDiscoveries")
              /\ Throw(DiscoveryError)
              /\ server' = server
  /\ UNCHANGED <<args, env, apiKey, apiClient, file, caller, saveFor, tokenSet,
                 newTokenSet, userId, hist>>

\* preserveCredentials: getCurrentUserInfo, then JSON.stringify and writeFileSync;
\* and what its caller does with its return or its error (ensureAuth lines 247-252
\* and 262-272, authFlow lines 173-174, ensureAuth lines 267, 278-283)
preserveCredentials ==
  /\ pc = "preserve"
  /\ \E id \in {""} \cup UserIds, w \in {""} \cup WriteErrorCodes :
       LET e == IF id = "" THEN IdentityError ELSE FsError(w)
           token == OrElse(Prop(newTokenSet, "access_token"), "")
       IN
       /\ userId' = id
       /\ IF id = "" \/ w # ""
            THEN /\ fx' = Count("identityCalls")
                 /\ file' = file
                 /\ IF saveFor = "refresh" THEN ThrowInTry(e) ELSE Throw(e)
                 /\ UNCHANGED <<apiKey, apiClient, hist>>
            ELSE /\ fx' = [fx EXCEPT !.identityCalls = @ + 1, !.writes = @ + 1]
                 /\ file' = writeFileSync(file, CredentialContents(newTokenSet, id),
                                          CREDENTIALS_MODE, env.umask)
                 /\ err' = err
                 /\ hist' = [hist EXCEPT !.saved = saveFor]
                 /\ IF saveFor = "refresh"
                      THEN pc' = "returned" /\ UNCHANGED <<apiKey, apiClient>>
                      ELSE IF caller = "ensureAuth"
                        THEN pc' = "returned" /\ apiKey' = token /\ apiClient' = token
                        ELSE pc' = "done" /\ UNCHANGED <<apiKey, apiClient>>
  /\ UNCHANGED <<args, env, caller, saveFor, tokenSet, newTokenSet, server>>

\* after the middleware returned yargs runs the command: the handler of this
\* module for `auth` and its alias `login`, another module's otherwise
handler ==
  /\ pc = "returned"
  /\ IF args.cmd \in {"auth", "login"} /\ ~args.help
       THEN pc' = "authFlow"
       ELSE pc' = "done"
  /\ caller' = "handler"
  /\ UNCHANGED <<args, env, apiKey, apiClient, file, saveFor, err, tokenSet,
                 newTokenSet, userId, server, hist, fx>>

(* ------------------------------------------------------------------ *)
(* The loopback server of auth()                                       *)
(* ------------------------------------------------------------------ *)

Running == pc \notin {"threw", "crashed"}

\* the async request handler rejected: nothing awaits it, so the rejection is
\* unhandled; depending on the runtime's unhandled-rejection mode the process goes on
\* or dies
Rejected ==
  \E dies \in BOOLEAN :
    IF dies
      THEN /\ pc' = "crashed"
           /\ err' = [message |-> "unhandled rejection", code |-> ""]
           /\ hist' = [hist EXCEPT !.crashedAt = pc]
      ELSE UNCHANGED <<pc, err, hist>>

\* a request whose url does not start with '/callback': 404
request_other ==
  /\ Running
  /\ server.listening
  /\ server.requests < MaxRequests
  /\ \E url \in RequestUrls :
       /\ ~IsCallbackUrl(url)
       /\ server' = [server EXCEPT !.requests = @ + 1, !.notFound = @ + 1]
  /\ UNCHANGED <<args, env, apiKey, apiClient, file, pc, caller, saveFor, err, tokenSet,
                 newTokenSet, userId, hist, fx>>

\* a request whose url starts with '/callback': neonOAuthClient.callback(...) checks
\* the state and then starts the code-for-token exchange
request_callback ==
  /\ Running
  /\ server.listening
  /\ server.requests < MaxRequests
  /\ \E url \in RequestUrls, stateMatches \in BOOLEAN :
       LET other == PathOf(url) # CALLBACK_PATH IN
       /\ IsCallbackUrl(url)
       /\ IF stateMatches
            THEN /\ server' = [server EXCEPT !.requests = @ + 1, !.pending = @ + 1,
                                             !.offPath = @ \/ other]
                 /\ UNCHANGED <<pc, err, hist>>
            ELSE /\ server' = [server EXCEPT !.requests = @ + 1, !.rejections = @ + 1,
                                             !.offPath = @ \/ other]
                 /\ Rejected
  /\ UNCHANGED <<args, env, apiKey, apiClient, file, caller, saveFor, tokenSet,
                 newTokenSet, userId, fx>>

\* a pending exchange completes: the rest of the request handler (lines 95-98), and
\* with the first resolve the continuation of authFlow
callback_done ==
  /\ Running
  /\ server.pending > 0
  /\ \E r \in {NoTokenSet} \cup IssuedTokenSets(env.now) :
       IF r = NoTokenSet
         THEN /\ server' = [server EXCEPT !.pending = @ - 1, !.exchanges = @ + 1,
                                          !.rejections = @ + 1]
              /\ Rejected
              /\ UNCHANGED <<newTokenSet, saveFor>>
         ELSE /\ server' = [server EXCEPT !.pending = @ - 1, !.exchanges = @ + 1,
                                          !.successPages = @ + 1, !.resolved = TRUE,
                                          !.listening = FALSE]
              /\ UNCHANGED <<err, hist>>
              /\ IF server.resolved
                   THEN UNCHANGED <<pc, newTokenSet, saveFor>>
                   ELSE pc' = "preserve" /\ newTokenSet' = r /\ saveFor' = "login"
  /\ UNCHANGED <<args, env, apiKey, apiClient, file, caller, tokenSet, userId, fx>>

\* an exchange awaited by a request handler of an earlier auth() call completes:
\* its resolve and server.close() have no effect any more, its failure is one more
\* rejected handler
stale_callback_done ==
  /\ Running
  /\ server.stale > 0
  /\ server' = [server EXCEPT !.stale = @ - 1]
  /\ \E ok \in BOOLEAN :
       IF ok THEN UNCHANGED <<pc, err, hist>> ELSE Rejected
  /\ UNCHANGED <<args, env, apiKey, apiClient, file, caller, saveFor, tokenSet,
                 newTokenSet, userId, fx>>

(* ------------------------------------------------------------------ *)
(* Specification                                                       *)
(* ------------------------------------------------------------------ *)

Next ==
  \/ ensureAuth
  \/ ExternalRemove
  \/ readCredentials
  \/ refreshToken_discover
  \/ refreshToken_refresh
  \/ authFlow
  \/ auth
  \/ preserveCredentials
  \/ handler
  \/ request_other
  \/ request_callback
  \/ callback_done
  \/ stale_callback_done

Spec == Init /\ [][Next]_vars

(* ------------------------------------------------------------------ *)
(* Properties                                                          *)
(* ------------------------------------------------------------------ *)

\* the command goes through the credential-file logic of ensureAuth
UsesCredentialFile == args.cmd \notin {"", "auth"} /\ ~args.help /\ args.apiKey = ""

\* readFileSync returned the contents the file had at the start
ReadReturned == hist.read \in {"valid", "expired", "corrupt"}

\* the file at the start of the invocation
StoredParses == hist.file0.exists /\ IsJSON(hist.file0.contents)
Stored == JSONparse(hist.file0.contents)
StoredIsExpired == "expires_at" \in DOMAIN Stored /\ Stored["expires_at"] <= env.now

\* the middleware is still the running part of the invocation (the command handler
\* has not been entered)
InEnsureAuth == caller = "ensureAuth"
\* ensureAuth returned normally (and the process may have died afterwards)
EnsureAuthReturned ==
  InEnsureAuth /\ (pc = "returned" \/ (pc = "crashed" /\ hist.crashedAt = "returned"))

NoLoginStarted ==
  /\ fx.authFlowCalls = 0 /\ fx.loginDiscoveries = 0 /\ fx.listeners = 0
  /\ fx.browserOpens = 0 /\ ~server.listening
NoRefreshStarted == fx.refreshCalls = 0 /\ fx.refreshDiscoveries = 0 /\ fx.refreshGrants = 0
NoWrite == fx.writes = 0 /\ fx.identityCalls = 0 /\ file = hist.file0

\* the file holds exactly the members of o, as JSON
FileHolds(o) ==
  /\ file.exists
  /\ IsJSON(file.contents)
  /\ Len(file.contents) = Cardinality(DOMAIN o) + 2
  /\ DOMAIN JSONparse(file.contents) = DOMAIN o
  /\ \A k \in DOMAIN o : JSONparse(file.contents)[k] = o[k]

\* C1: when ensureAuth runs with no explicit API key and the credential file
\* exists, parses and is not expired, the API key in use is exactly the stored
\* access_token, and ensureAuth makes no discovery, no refresh, no login and no
\* write of the file.
C1_ValidCachedTokenUsedAsIs ==
  (UsesCredentialFile /\ InEnsureAuth /\ ReadReturned /\ StoredParses /\ ~StoredIsExpired)
    => /\ pc = "returned"
       /\ apiKey = Stored["access_token"]
       /\ apiClient = Stored["access_token"]
       /\ NoLoginStarted /\ NoRefreshStarted /\ NoWrite

C1_Witness ==
  /\ UsesCredentialFile /\ InEnsureAuth /\ ReadReturned /\ StoredParses /\ ~StoredIsExpired
  /\ pc = "returned" /\ apiKey = "at0" /\ fx.reads = 1

\* C2: when the stored credential is expired and the refresh succeeds, the
\* refreshed access_token is put in use with no login started; and once the identity
\* lookup and the write of that save have succeeded, ensureAuth has returned, the
\* file holds exactly the refreshed token set plus user_id (nothing of the old
\* token set is left) and still no login was started.
C2_RefreshedTokenSavedWholesale ==
  /\ (InEnsureAuth /\ hist.refresh = "ok" /\ pc = "preserve" /\ saveFor = "refresh")
       => /\ ReadReturned /\ StoredParses /\ StoredIsExpired
          /\ apiKey = newTokenSet["access_token"]
          /\ apiClient = newTokenSet["access_token"]
          /\ NoLoginStarted
  /\ (InEnsureAuth /\ hist.saved = "refresh")
       => /\ pc = "returned"
          /\ apiKey = newTokenSet["access_token"]
          /\ apiClient = newTokenSet["access_token"]
          /\ newTokenSet \in IssuedTokenSets(env.now)
          /\ FileHolds([k \in DOMAIN newTokenSet \cup {"user_id"} |->
                          IF k = "user_id" THEN userId ELSE newTokenSet[k]])
          /\ NoLoginStarted

\* the old token set had a refresh_token, the refreshed one has none
C2_Witness ==
  /\ InEnsureAuth /\ hist.saved = "refresh" /\ pc = "returned"
  /\ "refresh_token" \in DOMAIN Stored
  /\ "refresh_token" \notin DOMAIN newTokenSet
  /\ userId = "u1"

\* C3: when the stored credential is expired and the refresh fails (at discovery
\* or at the refresh grant), the refresh failure is never the error ensureAuth ends
\* with: authFlow is entered, and if the login and its save succeed ensureAuth
\* returns normally with the new access_token in use.
C3_RefreshFailureFallsIntoLogin ==
  /\ err.message # "AUTH_REFRESH_FAILED"
  /\ hist.refresh = "failed"
       => /\ ReadReturned /\ StoredParses /\ StoredIsExpired
          /\ pc = "authFlow" \/ fx.authFlowCalls >= 1
  /\ (InEnsureAuth /\ hist.refresh = "failed" /\ hist.saved = "login")
       => /\ EnsureAuthReturned
          /\ apiKey = newTokenSet["access_token"]
          /\ apiClient = newTokenSet["access_token"]
          /\ newTokenSet \in IssuedTokenSets(env.now)

C3_Witness ==
  /\ InEnsureAuth /\ hist.refresh = "failed" /\ hist.saved = "login"
  /\ pc = "returned" /\ apiKey = "at1" /\ fx.refreshGrants = 1

\* C4: when no explicit API key is given and the credential file is missing,
\* ensureAuth always calls authFlow (which, unless it refuses in CI, goes on to the
\* login), a token set the login obtains is handed to preserveCredentials, and no
\* refresh is attempted.
C4_MissingFileStartsLogin ==
  (UsesCredentialFile /\ ~hist.file0.exists /\ pc # "ensureAuth")
    => /\ hist.read = "missing"
       /\ pc = "authFlow" \/ fx.authFlowCalls >= 1
       /\ (fx.authFlowCalls >= 1 /\ ~(env.ci /\ ~args.forceAuth))
            => pc = "auth_discover" \/ fx.loginDiscoveries >= 1
       /\ (InEnsureAuth /\ server.resolved)
            => \/ pc = "preserve" /\ saveFor = "login"
               \/ fx.identityCalls >= 1
               \/ pc = "crashed" /\ hist.crashedAt = "preserve"
       /\ NoRefreshStarted

C4_Witness ==
  /\ UsesCredentialFile /\ ~hist.file0.exists /\ InEnsureAuth
  /\ pc = "returned" /\ hist.saved = "login" /\ file.exists /\ fx.authFlowCalls = 1

\* C5: when no explicit API key is given and the credential file exists but is
\* not parseable as JSON, ensureAuth runs the interactive login (authFlow) as for a
\* missing file instead of failing with the parse error.
C5_CorruptFileStartsLogin ==
  (UsesCredentialFile /\ InEnsureAuth /\ hist.read = "corrupt")
    => /\ err # SyntaxError
       /\ pc = "authFlow" \/ fx.authFlowCalls >= 1

\* C6: when readFileSync fails with an error other than ENOENT (EACCES, EIO),
\* ensureAuth ends by throwing that error, and neither starts a login (no authFlow,
\* no listener, no browser) nor writes the credential file.
C6_ReadErrorPropagates ==
  hist.read = "ioerror"
    => /\ pc = "threw"
       /\ err.code \in IoErrorCodes
       /\ InEnsureAuth
       /\ NoLoginStarted /\ NoRefreshStarted /\ NoWrite

C6_Witness ==
  /\ hist.read = "ioerror" /\ pc = "threw" /\ err = FsError("EACCES")
  /\ fx.reads = 1 /\ hist.file0.exists

NoFileAccess == fx.existsChecks = 0 /\ fx.reads = 0 /\ NoWrite

\* C7 as stated: with an explicit API key, whichever command is run, the key
\* authorizes the API client and the invocation neither reads nor writes the
\* credential file and makes no discovery, refresh or login.
C7_ApiKeySkipsEverything ==
  args.apiKey # ""
    => /\ NoFileAccess /\ NoLoginStarted /\ NoRefreshStarted
       /\ (args.cmd # "" /\ ~args.help /\ pc # "ensureAuth") => apiClient = args.apiKey

\* C7 amended: with an explicit API key, ensureAuth authorizes the API client with
\* that key (for a non-empty command without --help) and skips all credential-file
\* logic: for every command other than auth/login the whole invocation neither
\* reads nor writes the file and makes no discovery, refresh or login, whatever the
\* state of the file; for auth/login this holds until the command handler runs,
\* which then calls authFlow (interactive login and save) all the same.
C7_ApiKeySkipsFileLogicExceptAuthHandler ==
  args.apiKey # ""
    => /\ (InEnsureAuth \/ args.cmd \notin {"auth", "login"})
            => NoFileAccess /\ NoLoginStarted /\ NoRefreshStarted
       /\ (args.cmd # "" /\ ~args.help /\ pc # "ensureAuth")
            => apiClient = args.apiKey /\ apiKey = args.apiKey
       /\ (args.cmd \in {"auth", "login"} /\ ~args.help /\ ~InEnsureAuth)
            => pc = "authFlow" \/ fx.authFlowCalls = 1
       /\ fx.existsChecks = 0 /\ fx.reads = 0 /\ NoRefreshStarted

C7_Witness ==
  /\ args.apiKey = "key" /\ args.cmd = "projects" /\ pc = "done"
  /\ apiClient = "key" /\ StoredParses /\ StoredIsExpired /\ file = hist.file0

\* C8: in CI with forceAuth false nothing of the interactive login ever happens
\* (no issuer discovery for login, no listener, no browser launch) and every call of
\* authFlow, from whichever path, ends the invocation with the CI error; in CI with
\* forceAuth true authFlow goes on to the login.
C8_UnattendedRefusal ==
  /\ (env.ci /\ ~args.forceAuth)
       => /\ fx.loginDiscoveries = 0 /\ fx.listeners = 0 /\ fx.browserOpens = 0
          /\ ~server.listening
          /\ fx.authFlowCalls >= 1
               => pc = "threw" /\ err = CiError /\ fx.authFlowCalls = 1
  /\ (env.ci /\ args.forceAuth /\ fx.authFlowCalls >= 1)
       => /\ err # CiError
          /\ pc = "auth_discover" \/ fx.loginDiscoveries >= 1

\* the refusal on the failed-refresh path
C8_Witness ==
  /\ env.ci /\ ~args.forceAuth /\ hist.refresh = "failed"
  /\ pc = "threw" /\ err = CiError /\ fx.refreshDiscoveries = 1

\* the login proceeding in CI with the flag set
C8_WitnessForced ==
  env.ci /\ args.forceAuth /\ server.listening /\ fx.browserOpens = 1

\* C9: every step that writes the credential file is a save whose identity lookup
\* succeeded in that step, and the contents written carry the user_id it returned
\* (with the members of the token set saved); a save whose identity lookup fails
\* leaves the file as it was and ends the invocation with the lookup's error, after
\* a login and after a refresh alike.
C9_WrittenOnlyAfterIdentityLookup ==
  [][ /\ (fx'.writes # fx.writes \/ (file' # file /\ file'.exists))
           => /\ fx'.identityCalls = fx.identityCalls + 1
              /\ userId' \in UserIds
              /\ IsJSON(file'.contents)
              /\ "user_id" \in DOMAIN JSONparse(file'.contents)
              /\ JSONparse(file'.contents)["user_id"] = userId'
              /\ \A k \in DOMAIN newTokenSet : JSONparse(file'.contents)[k] = newTokenSet[k]
      /\ (fx'.identityCalls # fx.identityCalls /\ userId' = "")
           => /\ file' = file
              /\ pc' = "threw"
              /\ err' = IdentityError
    ]_vars

\* the identity lookup failed after a successful refresh
C9_Witness ==
  /\ pc = "threw" /\ err = IdentityError /\ hist.refresh = "ok" /\ saveFor = "refresh"
  /\ fx.identityCalls = 1 /\ fx.writes = 0 /\ file = hist.file0

\* C10: after every successful save, the credential file's permission bits allow
\* access to the owning user only.
C10_OwnerOnlyAfterSave ==
  (fx.writes >= 1 /\ file.exists) => OwnerOnly(file.mode)

\* C11: while the login waits, every request to a path other than the callback path
\* is answered 404, and as long as only such requests arrived the wait is not
\* resolved, no exchange was begun and the listener is still open.
C11_OnlyCallbackPathIsServed ==
  /\ ~server.offPath
  /\ (server.notFound = server.requests)
       => /\ ~server.resolved
          /\ server.pending = 0 /\ server.exchanges = 0 /\ server.successPages = 0
          /\ (pc = "auth_wait" => server.listening)

\* C12: the receiver is one-shot: on one listener at most one exchange is ever
\* begun and at most one success page served, and the listener is closed once the
\* wait is resolved.
C12_OneShotReceiver ==
  /\ server.exchanges + server.pending <= 1
  /\ server.successPages <= 1
  /\ (server.resolved => ~server.listening)

\* C13: once a callback was rejected (state mismatch or failed exchange) the login
\* has failed with an error at its caller, and no token set was returned.
C13_FailedCallbackFailsLogin ==
  (server.rejections >= 1) => (pc = "threw" /\ err # NoError /\ ~server.resolved)

(* ------------------------------------------------------------------ *)
(* Progress                                                            *)
(* ------------------------------------------------------------------ *)

\* Every step of the program that is enabled is eventually taken: the steps of the
\* main flow run to completion on the event loop, and the calls to the authority
\* end within SERVER_TIMEOUT (http options default, lines 30-32). Requests to the
\* loopback server come from the browser and need never arrive.
Fairness ==
  /\ WF_vars(ensureAuth)
  /\ WF_vars(readCredentials)
  /\ WF_vars(refreshToken_discover)
  /\ WF_vars(refreshToken_refresh)
  /\ WF_vars(authFlow)
  /\ WF_vars(auth)
  /\ WF_vars(preserveCredentials)
  /\ WF_vars(handler)
  /\ WF_vars(callback_done)
  /\ WF_vars(stale_callback_done)

FairSpec == Init /\ [][Next]_vars /\ Fairness

\* no request taken for the callback has arrived at the listener
CallbackFree == server.requests = server.notFound

\* C14: a login that waits for the callback and receives none eventually stops
\* waiting (it ends with a timeout).
C14_CallbackWaitIsBounded ==
  (pc = "auth_wait" /\ CallbackFree) ~> (pc # "auth_wait" \/ ~CallbackFree)

\* C15: in one invocation the interactive login is started at most once and the
\* refresh is attempted at most once, and when a login was started after a refresh
\* attempt, that refresh had failed.
C15_NoSecondAttempt ==
  /\ fx.authFlowCalls <= 1
  /\ fx.refreshCalls <= 1
  /\ (fx.authFlowCalls >= 1 /\ fx.refreshCalls >= 1) => hist.refresh = "failed"

\* C16: the program changes the credential file only as the last step of a
\* successful login or a successful refresh, after the identity lookup, and then
\* the file holds exactly the new token set plus user_id; every other step of the
\* program leaves the file as it was, and no step of the program removes it (a
\* removal is the doing of another party).
C16_FileChangedOnlyBySave ==
  [][ /\ (file.exists /\ ~file'.exists) => (pc = "read" /\ pc' = pc /\ fx' = fx)
      /\ (file' # file /\ file'.exists)
           => /\ pc = "preserve" /\ pc' \in {"returned", "done"}
              /\ (saveFor = "refresh" => hist.refresh = "ok" /\ fx.authFlowCalls = 0)
              /\ (saveFor = "login" => server.resolved /\ server.successPages >= 1)
              /\ saveFor \in {"refresh", "login"}
              /\ newTokenSet \in IssuedTokenSets(env.now)
              /\ fx'.identityCalls = fx.identityCalls + 1
              /\ fx'.writes = fx.writes + 1
              /\ IsJSON(file'.contents)
              /\ Len(file'.contents) = Cardinality(DOMAIN newTokenSet) + 3
              /\ JSONparse(file'.contents) = WithUserId(newTokenSet, userId')
    ]_vars

\* a login replaced a credential file that held an older token set
C16_Witness ==
  /\ hist.saved = "login" /\ fx.writes = 1 /\ hist.file0.exists /\ file # hist.file0
  /\ FileHolds(WithUserId(newTokenSet, userId))
  /\ pc \in {"returned", "done"}

\* C17: whenever ensureAuth has returned for a command other than auth that uses the
\* credential file (no explicit API key, no help request), the API key in use and
\* the API client's key equal the access_token the credential file holds, whether
\* the key came from the cache, a refresh or a login.
C17_KeyInUseIsStoredToken ==
  (UsesCredentialFile /\ args.cmd # "auth" /\ InEnsureAuth /\ pc = "returned")
    => /\ file.exists /\ IsJSON(file.contents)
       /\ apiKey # ""
       /\ apiKey = Prop(JSONparse(file.contents), "access_token")
       /\ apiClient = apiKey

\* ensureAuth returned after a login that replaced the stored access_token
C17_Witness ==
  /\ UsesCredentialFile /\ args.cmd = "projects" /\ InEnsureAuth /\ pc = "returned"
  /\ hist.saved = "login" /\ hist.file0.exists /\ apiKey = "at1"
  /\ Prop(JSONparse(file.contents), "access_token") = "at1"

\* ensureAuth returned with the cached access_token
C17_WitnessCached ==
  /\ UsesCredentialFile /\ args.cmd = "projects" /\ InEnsureAuth /\ pc = "returned"
  /\ hist.read = "valid" /\ apiKey = "at0" /\ file = hist.file0

(* ------------------------------------------------------------------ *)
(* Two invocations on one credential file                              *)
(* ------------------------------------------------------------------ *)

\* The second invocation (env.peer) is the same program started on the same path
\* with a command that uses the file; of its run only the operations on the file
\* are kept: existsSync, readFileSync with JSON.parse and expired(), and the save of
\* the token set its refresh or login obtained. The first invocation is the program
\* as above, with writeFileSync taken as the two system calls it makes.

\* what the second invocation saves
PeerContents == CredentialContents(MkTokenSet("at2", "rt2", env.now + 1), "u2")

\* ensureAuth of the second invocation: existsSync (line 218)
peer_existsSync ==
  /\ env.peer.pc = "none"
  /\ env' = [env EXCEPT !.peer.pc = IF file.exists THEN "read" ELSE "save"]
  /\ UNCHANGED <<args, apiKey, apiClient, file, pc, caller, saveFor, err, tokenSet,
                 newTokenSet, userId, server, hist, fx>>

\* ensureAuth of the second invocation: readFileSync, JSON.parse, expired() (lines
\* 220-225); a missing file or an expired token set leads it to a save
peer_readFileSync ==
  /\ env.peer.pc = "read"
  /\ env' = [env EXCEPT !.peer =
       IF ~file.exists THEN [@ EXCEPT !.pc = "save"]
       ELSE [pc   |-> IF ~IsJSON(file.contents) THEN "threw"
                      ELSE IF expired(JSONparse(file.contents), env.now) THEN "save"
                      ELSE "done",
             read |-> TRUE,
             seen |-> file.contents]]
  /\ UNCHANGED <<args, apiKey, apiClient, file, pc, caller, saveFor, err, tokenSet,
                 newTokenSet, userId, server, hist, fx>>

\* preserveCredentials of the second invocation: writeFileSync opens the file
peer_open ==
  /\ env.peer.pc = "save"
  /\ file' = openTrunc(file, CREDENTIALS_MODE, env.umask)
  /\ env' = [env EXCEPT !.peer.pc = "write"]
  /\ UNCHANGED <<args, apiKey, apiClient, pc, caller, saveFor, err, tokenSet,
                 newTokenSet, userId, server, hist, fx>>

\* preserveCredentials of the second invocation: writeFileSync writes
peer_write ==
  /\ env.peer.pc = "write"
  /\ file' = writeAt0(file, PeerContents)
  /\ env' = [env EXCEPT !.peer.pc = "done"]
  /\ UNCHANGED <<args, apiKey, apiClient, pc, caller, saveFor, err, tokenSet,
                 newTokenSet, userId, server, hist, fx>>

\* preserveCredentials up to the open of writeFileSync
preserveCredentials_open ==
  /\ pc = "preserve"
  /\ \E id \in {""} \cup UserIds, w \in {""} \cup WriteErrorCodes :
       LET e == IF id = "" THEN IdentityError ELSE FsError(w) IN
       /\ userId' = id
       /\ fx' = Count("identityCalls")
       /\ IF id = "" \/ w # ""
            THEN /\ file' = file
                 /\ IF saveFor = "refresh" THEN ThrowInTry(e) ELSE Throw(e)
            ELSE /\ file' = openTrunc(file, CREDENTIALS_MODE, env.umask)
                 /\ pc' = "write"
                 /\ err' = err
  /\ UNCHANGED <<args, env, apiKey, apiClient, caller, saveFor, tokenSet, newTokenSet,
                 server, hist>>

\* the write of writeFileSync, and the return of preserveCredentials to its caller
preserveCredentials_write ==
  /\ pc = "write"
  /\ file' = writeAt0(file, CredentialContents(newTokenSet, userId))
  /\ fx' = Count("writes")
  /\ hist' = [hist EXCEPT !.saved = saveFor]
  /\ LET token == OrElse(Prop(newTokenSet, "access_token"), "") IN
     IF saveFor = "refresh"
       THEN pc' = "returned" /\ UNCHANGED <<apiKey, apiClient>>
       ELSE IF caller = "ensureAuth"
         THEN pc' = "returned" /\ apiKey' = token /\ apiClient' = token
         ELSE pc' = "done" /\ UNCHANGED <<apiKey, apiClient>>
  /\ UNCHANGED <<args, env, caller, saveFor, err, tokenSet, newTokenSet, userId, server>>

\* both invocations run a command that uses the credential file
ConcurrentInit ==
  /\ Init
  /\ args.cmd = "projects" /\ ~args.help /\ args.apiKey = ""

ConcurrentNext ==
  \/ ensureAuth
  \/ ExternalRemove
  \/ readCredentials
  \/ refreshToken_discover
  \/ refreshToken_refresh
  \/ authFlow
  \/ auth
  \/ preserveCredentials_open
  \/ preserveCredentials_write
  \/ handler
  \/ request_other
  \/ request_callback
  \/ callback_done
  \/ peer_existsSync
  \/ peer_readFileSync
  \/ peer_open
  \/ peer_write

ConcurrentSpec == ConcurrentInit /\ [][ConcurrentNext]_vars

\* the contents a save writes
SavedContents ==
  {CredentialContents(ts, id) : ts \in IssuedTokenSets(env.now), id \in UserIds}
    \cup {PeerContents}

\* the complete contents the file can hold: those it had at the start, those of a save
CompleteContents ==
  (IF hist.file0.exists THEN {hist.file0.contents} ELSE {}) \cup SavedContents

\* C18: with two invocations on the same file, every content an invocation reads is
\* the complete content from before the saves or the complete content of a save
\* (the first invocation finds the file unparsable only if it was so at the start),
\* and when both have finished the file holds the complete content of a save or is
\* as it was.
C18_NoPartialFileObserved ==
  /\ env.peer.read => env.peer.seen \in CompleteContents
  /\ (hist.read = "corrupt") => (hist.file0.exists /\ ~IsJSON(hist.file0.contents))
  /\ (pc \in {"done", "threw"} /\ env.peer.pc \in {"done", "threw"} /\ file.exists)
       => file.contents \in CompleteContents

\* C19: when the file is removed between the existence check and the read,
\* ensureAuth goes on to the interactive login instead of failing; and after a
\* successful refresh no error raised while saving the refreshed token set makes
\* ensureAuth start the interactive login.
C19_EnoentOnlyFromMissingFile ==
  /\ (InEnsureAuth /\ hist.read = "ENOENT")
       => (pc = "authFlow" \/ fx.authFlowCalls >= 1)
  /\ (InEnsureAuth /\ hist.refresh = "ok")
       => (pc # "authFlow" /\ fx.authFlowCalls = 0)

\* C20: for the auth command and its alias login with no explicit API key (and no
\* help request), the file is never tested nor read, no refresh is attempted, the
\* interactive login is started at most once, and it has been started once when the
\* invocation ends normally, the file then holding the new token set.
C20_AuthCommandOnlyLogsIn ==
  (args.cmd \in {"auth", "login"} /\ args.apiKey = "" /\ ~args.help)
    => /\ fx.existsChecks = 0 /\ fx.reads = 0
       /\ NoRefreshStarted
       /\ fx.authFlowCalls <= 1
       /\ (pc = "done" => /\ fx.authFlowCalls = 1
                          /\ FileHolds(WithUserId(newTokenSet, userId)))

====
